---- MODULE Spec2Model ----
\* Pepper interpreter front-end: main(), repl(), run_script(), read_file()
\* (main.c) and the lexer's gettoken() (lex.c).
EXTENDS Integers, Sequences, FiniteSets, TLC

VARIABLES
    \* ---- process / main() ----
    pc,             \* position in main / repl / run_script
    argv,           \* command-line arguments after argv[0]
    exit_code,      \* process exit code, NoExit while running
    banners,        \* number of version banners printed
    script_arg,     \* filename handed to run_script, NoArg if none
    \* ---- repl() / run_script() locals ----
    symbol_table,   \* repl: struct symbol_table *symbol_table
    constants,      \* repl: struct object_list *constants
    globals,        \* repl: struct object globals[GLOBALS_SIZE]
    program,        \* the submission read / its parsed program
    code,           \* bytecode of the current submission
    machine,        \* struct vm *machine
    err,            \* int err
    obj,            \* struct object obj = vm_stack_last_popped(machine)
    \* ---- observation of the current submission ----
    outcome,        \* how the last submission ended
    calls,          \* stages called for the current submission
    printed,        \* TRUE iff print_object ran for the current submission
    pre,            \* persistent state when the current submission was read
    last_written,   \* per slot: value last stored by a run that returned 0
    \* ---- read_file() ----
    rf_pc, file, fpos, input, size, read,
    \* ---- lexer ----
    mem,            \* bytes of the buffer handed to new_lexer
    lexer,          \* struct lexer
    tok,            \* struct token filled by gettoken
    lex_hi,         \* highest index of input[] read so far
    lex_calls,      \* gettoken calls made so far
    lex_eof_at      \* number of the first call that returned TOKEN_EOF, 0 if none

vars == <<pc, argv, exit_code, banners, script_arg, symbol_table, constants,
          globals, program, code, machine, err, obj, outcome, calls, printed,
          pre, last_written, rf_pc, file, fpos, input, size, read,
          mem, lexer, tok, lex_hi, lex_calls, lex_eof_at>>

mainVars == <<pc, argv, exit_code, banners, script_arg, symbol_table, constants,
              globals, program, code, machine, err, obj, outcome, calls,
              printed, pre, last_written>>
fileVars == <<rf_pc, file, fpos, input, size, read>>
lexVars  == <<mem, lexer, tok, lex_hi, lex_calls, lex_eof_at>>

----------------------------------------------------------------------------
\* Bounds of the model

GLOBALS_SIZE == 3       \* slots of the globals array (scaled down)
MaxConstants == 3       \* constant pool entries the model lets accumulate
MaxStmts     == 2       \* statements per submission

----------------------------------------------------------------------------
\* Values

EXIT_SUCCESS == 0
EXIT_FAILURE == 1
NoExit       == -1
NoArg        == "<none>"
NotFound     == -1

Names    == {"x", "y"}

ObjTypes == {"NULL", "BOOLEAN", "INTEGER", "COMPILED_FUNCTION", "CLOSURE", "BUILTIN"}

Object(t, v) == [type |-> t, val |-> v]
\* an object whose bytes were never written (indeterminate value)
UNINIT   == Object("UNINIT", 0)

Slots == 0 .. (GLOBALS_SIZE - 1)

----------------------------------------------------------------------------
\* Programs: what parse_program hands to the compiler.  A statement is one of
\*   let n = v;      n = v;      n;      -true;      len;

Let(n, v)  == [k |-> "let",     n |-> n,  v |-> v]
Assign(n, v) == [k |-> "assign", n |-> n, v |-> v]
Ident(n)   == [k |-> "ident",   n |-> n,  v |-> 0]
NegBool    == [k |-> "negbool", n |-> "", v |-> 0]
BuiltinRef == [k |-> "builtin", n |-> "", v |-> 0]

\* let x = 1;  let y = 2;  x = 3;  x;  y;  -true;  len;
Statements == {Let("x", 1), Let("y", 2), Assign("x", 3)}
                \cup {Ident(n) : n \in Names}
                \cup {NegBool, BuiltinRef}

SeqsUpTo(S, n) == UNION {[1..m -> S] : m \in 0..n}

\* parser.errors and the parsed program of one input
Submissions == {[errors |-> 0, statements |-> ss] : ss \in SeqsUpTo(Statements, MaxStmts)}
                 \cup {[errors |-> 1, statements |-> <<>>]}

NoProgram == [errors |-> 0, statements |-> <<>>]

RECURSIVE CountKind(_, _)
CountKind(ss, kinds) ==
    IF ss = <<>> THEN 0
    ELSE (IF Head(ss).k \in kinds THEN 1 ELSE 0) + CountKind(Tail(ss), kinds)

----------------------------------------------------------------------------
\* Symbol table (outermost scope only)

symbol_table_new == [store |-> [n \in Names |-> NotFound], size |-> 0]

define(st, n) == [store |-> [st.store EXCEPT ![n] = st.size], size |-> st.size + 1]

resolve(st, n) == st.store[n]

----------------------------------------------------------------------------
\* Compiler

COMPILE_ERR_UNKNOWN_IDENT == 1

Ins(op, arg) == [op |-> op, arg |-> arg]

RECURSIVE compile_statements(_, _, _, _)
compile_statements(ss, st, cs, ins) ==
    IF ss = <<>>
    THEN [err |-> 0, symbol_table |-> st, constants |-> cs, instructions |-> ins]
    ELSE LET s == Head(ss) IN
      CASE s.k = "let" ->
             LET cs2 == Append(cs, Object("INTEGER", s.v))
                 st2 == define(st, s.n)
             IN compile_statements(Tail(ss), st2, cs2,
                    ins \o <<Ins("CONSTANT", Len(cs2) - 1),
                             Ins("SET_GLOBAL", resolve(st2, s.n))>>)
        [] s.k = "assign" ->
             IF resolve(st, s.n) = NotFound
             THEN [err |-> COMPILE_ERR_UNKNOWN_IDENT, symbol_table |-> st,
                   constants |-> cs, instructions |-> ins]
             ELSE LET cs2 == Append(cs, Object("INTEGER", s.v))
                  IN compile_statements(Tail(ss), st, cs2,
                         ins \o <<Ins("CONSTANT", Len(cs2) - 1),
                                  Ins("SET_GLOBAL", resolve(st, s.n))>>)
        [] s.k = "ident" ->
             IF resolve(st, s.n) = NotFound
             THEN [err |-> COMPILE_ERR_UNKNOWN_IDENT, symbol_table |-> st,
                   constants |-> cs, instructions |-> ins]
             ELSE compile_statements(Tail(ss), st, cs,
                    ins \o <<Ins("GET_GLOBAL", resolve(st, s.n)), Ins("POP", 0)>>)
        [] s.k = "negbool" ->
             compile_statements(Tail(ss), st, cs,
                    ins \o <<Ins("TRUE", 0), Ins("MINUS", 0), Ins("POP", 0)>>)
        [] s.k = "builtin" ->
             compile_statements(Tail(ss), st, cs,
                    ins \o <<Ins("GET_BUILTIN", 0), Ins("POP", 0)>>)

\* compile_program on a compiler that works on symbol table st and pool cs
compile_program(st, cs, prog) == compile_statements(prog.statements, st, cs, <<>>)

get_bytecode(c) == [instructions |-> c.instructions, constants |-> c.constants]

NoCode == [instructions |-> <<>>, constants |-> <<>>]

----------------------------------------------------------------------------
\* Virtual machine

VM_ERR_INVALID_OP_TYPE == 1

vm_new_with_globals(bc, g) ==
    [code |-> bc, globals |-> g, stack |-> <<>>, last_popped |-> UNINIT,
     stored |-> {}]

vm_new(bc) == vm_new_with_globals(bc, [i \in Slots |-> Object("NULL", 0)])

NoMachine == vm_new_with_globals(NoCode, [i \in Slots |-> UNINIT])

Push(m, o) == [m EXCEPT !.stack = Append(@, o)]
Top(m)     == m.stack[Len(m.stack)]
Drop(m)    == [m EXCEPT !.stack = SubSeq(@, 1, Len(@) - 1)]

RECURSIVE vm_exec(_, _)
vm_exec(m, ip) ==
    IF ip > Len(m.code.instructions)
    THEN [err |-> 0, machine |-> m]
    ELSE LET i == m.code.instructions[ip] IN
      CASE i.op = "CONSTANT"    -> vm_exec(Push(m, m.code.constants[i.arg + 1]), ip + 1)
        [] i.op = "TRUE"        -> vm_exec(Push(m, Object("BOOLEAN", 1)), ip + 1)
        [] i.op = "GET_BUILTIN" -> vm_exec(Push(m, Object("BUILTIN", i.arg)), ip + 1)
        [] i.op = "GET_GLOBAL"  -> vm_exec(Push(m, m.globals[i.arg]), ip + 1)
        [] i.op = "SET_GLOBAL"  ->
             vm_exec([Drop(m) EXCEPT !.globals[i.arg] = Top(m),
                                     !.stored = @ \cup {i.arg}], ip + 1)
        [] i.op = "POP"         ->
             vm_exec([Drop(m) EXCEPT !.last_popped = Top(m)], ip + 1)
        [] i.op = "MINUS"       ->
             IF Top(m).type = "INTEGER"
             THEN vm_exec(Push(Drop(m), Object("INTEGER", 0 - Top(m).val)), ip + 1)
             ELSE [err |-> VM_ERR_INVALID_OP_TYPE, machine |-> m]

vm_run(m) == vm_exec(m, 1)

vm_stack_last_popped(m) == m.last_popped

----------------------------------------------------------------------------
\* main(), repl(), run_script()

MaxArgs == 2
Args    == {"--version", "--versio", "--version2", "script.pr"}

ReplPcs   == {"repl_prompt", "repl_fgets", "repl_parse", "repl_compile",
              "repl_vm_new", "repl_vm_run", "repl_print", "repl_copy"}
ScriptPcs == {"rs_read_file", "rs_parse", "rs_compile", "rs_vm_run", "rs_free"}

Call(stage, result) == [stage |-> stage, result |-> result]

PersistentState == [symbol_table |-> symbol_table, constants |-> constants,
                    globals |-> globals]

\* if (err): a non-zero return value is a failure
Failed_Negative(e) == e < 0
Failed(e) == e # 0

\* `continue` in the loop of repl: the next iteration starts at the prompt
ReplContinue_Return == "exited"
ReplContinue == "repl_prompt"

\* strcmp(argv[1], "--version") == 0
IsVersionFlag_Prefix(a) == a \in {"--version", "--version2"}
IsVersionFlag(a) == a = "--version"

\* obj.type != OBJ_COMPILED_FUNCTION && obj.type != OBJ_BUILTIN
ShouldPrint_FunctionOnly(o) == o.type # "COMPILED_FUNCTION"
ShouldPrint(o) == o.type # "COMPILED_FUNCTION" /\ o.type # "BUILTIN"

\* for (i < GLOBALS_SIZE) globals[i] = machine->globals[i]
CopyGlobalsOut_Skipped(g, m) == g
CopyGlobalsOut(g, m) == [i \in Slots |-> m.globals[i]]

\* the values a read of object o can produce
Concretize(o) == IF o.type = "UNINIT" THEN {Object(t, 0) : t \in ObjTypes} ELSE {o}

\* the submission's definitions fit the globals array and its constants the
\* pool the model keeps
Fits(sub) ==
    /\ symbol_table.size + CountKind(sub.statements, {"let"}) <= GLOBALS_SIZE
    /\ Len(constants) + CountKind(sub.statements, {"let", "assign"}) <= MaxConstants

\* locals before main runs
MainFresh ==
    /\ exit_code = NoExit
    /\ banners = 0
    /\ script_arg = NoArg
    /\ symbol_table = symbol_table_new
    /\ constants = <<>>
    /\ globals = [i \in Slots |-> UNINIT]
    /\ program = NoProgram
    /\ code = NoCode
    /\ machine = NoMachine
    /\ err = 0
    /\ obj = UNINIT
    /\ outcome = "none"
    /\ calls = <<>>
    /\ printed = FALSE
    /\ pre = PersistentState
    /\ last_written = [i \in Slots |-> UNINIT]

InitMain ==
    /\ pc = "main"
    /\ argv \in SeqsUpTo(Args, MaxArgs)
    /\ MainFresh

\* main is not part of the run
MainIdle ==
    /\ pc = "idle"
    /\ argv = <<>>
    /\ MainFresh

\* main: argc < 2 -> repl(); "--version" -> banner, return 0; else run_script
Main ==
    /\ pc = "main"
    /\ IF Len(argv) = 0
       THEN /\ banners' = banners + 1
            /\ pc' = "repl_prompt"
            /\ UNCHANGED <<exit_code, script_arg>>
       ELSE IF IsVersionFlag(argv[1])
       THEN /\ banners' = banners + 1
            /\ exit_code' = 0
            /\ pc' = "exited"
            /\ UNCHANGED script_arg
       ELSE /\ script_arg' = argv[1]
            /\ pc' = "rs_read_file"
            /\ UNCHANGED <<banners, exit_code>>
    /\ UNCHANGED <<argv, symbol_table, constants, globals, program, code, machine,
                   err, obj, outcome, calls, printed, pre, last_written>>
    /\ UNCHANGED <<fileVars, lexVars>>

\* repl: printf(">> ")
ReplPrompt ==
    /\ pc = "repl_prompt"
    /\ pc' = "repl_fgets"
    /\ UNCHANGED <<argv, exit_code, banners, script_arg, symbol_table, constants,
                   globals, program, code, machine, err, obj, outcome, calls,
                   printed, pre, last_written>>
    /\ UNCHANGED <<fileVars, lexVars>>

\* repl: fgets(input, BUFSIZ, stdin); NULL -> continue.  With a line read,
\* the body's locals (compiler, err, code, machine, obj) are fresh and the
\* previous program is no longer referenced.
ReplFgets ==
    /\ pc = "repl_fgets"
    /\ \E got \in BOOLEAN :
         IF got
         THEN /\ pc' = "repl_parse"
              /\ pre' = PersistentState
              /\ outcome' = "none"
              /\ calls' = <<>>
              /\ printed' = FALSE
              /\ program' = NoProgram
              /\ code' = NoCode
              /\ machine' = NoMachine
              /\ err' = 0
              /\ obj' = UNINIT
         ELSE /\ pc' = ReplContinue
              /\ UNCHANGED <<pre, outcome, calls, printed, program, code,
                             machine, err, obj>>
    /\ UNCHANGED <<argv, exit_code, banners, script_arg, symbol_table, constants,
                   globals, last_written>>
    /\ UNCHANGED <<fileVars, lexVars>>

\* repl: new_lexer, new_parser, parse_program; parser.errors > 0 -> continue
ReplParse ==
    /\ pc = "repl_parse"
    /\ \E sub \in Submissions :
         /\ Fits(sub)
         /\ program' = sub
         /\ calls' = Append(calls, Call("parse", sub.errors))
         /\ IF sub.errors > 0
            THEN /\ outcome' = "parse_error"
                 /\ pc' = ReplContinue
            ELSE /\ pc' = "repl_compile"
                 /\ UNCHANGED outcome
    /\ UNCHANGED <<argv, exit_code, banners, script_arg, symbol_table, constants,
                   globals, code, machine, err, obj, printed, pre, last_written>>
    /\ UNCHANGED <<fileVars, lexVars>>

\* repl: compiler_new_with_state(symbol_table, constants); compile_program;
\* err -> continue; else code = get_bytecode(compiler)
ReplCompile ==
    /\ pc = "repl_compile"
    /\ LET c == compile_program(symbol_table, constants, program) IN
         /\ symbol_table' = c.symbol_table
         /\ constants' = c.constants
         /\ err' = c.err
         /\ calls' = Append(calls, Call("compile", c.err))
         /\ IF Failed(c.err)
            THEN /\ outcome' = "compile_error"
                 /\ pc' = ReplContinue
                 /\ UNCHANGED code
            ELSE /\ code' = get_bytecode(c)
                 /\ pc' = "repl_vm_new"
                 /\ UNCHANGED outcome
    /\ UNCHANGED <<argv, exit_code, banners, script_arg, globals, program,
                   machine, obj, printed, pre, last_written>>
    /\ UNCHANGED <<fileVars, lexVars>>

\* repl: machine = vm_new_with_globals(code, globals)
ReplVmNew ==
    /\ pc = "repl_vm_new"
    /\ machine' = vm_new_with_globals(code, globals)
    /\ pc' = "repl_vm_run"
    /\ UNCHANGED <<argv, exit_code, banners, script_arg, symbol_table, constants,
                   globals, program, code, err, obj, outcome, calls, printed,
                   pre, last_written>>
    /\ UNCHANGED <<fileVars, lexVars>>

\* repl: err = vm_run(machine); err -> continue
ReplVmRun ==
    /\ pc = "repl_vm_run"
    /\ LET r == vm_run(machine) IN
         /\ machine' = r.machine
         /\ err' = r.err
         /\ calls' = Append(calls, Call("run", r.err))
         /\ IF Failed(r.err)
            THEN /\ outcome' = "runtime_error"
                 /\ pc' = ReplContinue
                 /\ UNCHANGED last_written
            ELSE /\ outcome' = "ok"
                 /\ pc' = "repl_print"
                 /\ last_written' = [i \in Slots |->
                        IF i \in r.machine.stored THEN r.machine.globals[i]
                        ELSE last_written[i]]
    /\ UNCHANGED <<argv, exit_code, banners, script_arg, symbol_table, constants,
                   globals, program, code, obj, printed, pre>>
    /\ UNCHANGED <<fileVars, lexVars>>

\* repl: obj = vm_stack_last_popped(machine); print unless function / builtin
ReplPrint ==
    /\ pc = "repl_print"
    /\ \E o \in Concretize(vm_stack_last_popped(machine)) :
         /\ obj' = o
         /\ printed' = ShouldPrint(o)
    /\ pc' = "repl_copy"
    /\ UNCHANGED <<argv, exit_code, banners, script_arg, symbol_table, constants,
                   globals, program, code, machine, err, outcome, calls, pre,
                   last_written>>
    /\ UNCHANGED <<fileVars, lexVars>>

\* repl: copy globals out of the VM, free(code), next iteration
ReplCopyGlobals ==
    /\ pc = "repl_copy"
    /\ globals' = CopyGlobalsOut(globals, machine)
    /\ pc' = "repl_prompt"
    /\ UNCHANGED <<argv, exit_code, banners, script_arg, symbol_table, constants,
                   program, code, machine, err, obj, outcome, calls, printed,
                   pre, last_written>>
    /\ UNCHANGED <<fileVars, lexVars>>

\* run_script: input = read_file(filename); exit(1) when fopen fails
RsReadFile ==
    /\ pc = "rs_read_file"
    /\ \E opened \in BOOLEAN :
         IF opened
         THEN /\ calls' = Append(calls, Call("open", 0))
              /\ pc' = "rs_parse"
              /\ UNCHANGED exit_code
         ELSE /\ calls' = Append(calls, Call("open", 1))
              /\ exit_code' = EXIT_FAILURE
              /\ pc' = "exited"
    /\ UNCHANGED <<argv, banners, script_arg, symbol_table, constants, globals,
                   program, code, machine, err, obj, outcome, printed, pre,
                   last_written>>
    /\ UNCHANGED <<fileVars, lexVars>>

\* run_script: parse_program; parser.errors > 0 -> return EXIT_FAILURE
RsParse ==
    /\ pc = "rs_parse"
    /\ \E sub \in Submissions :
         /\ program' = sub
         /\ calls' = Append(calls, Call("parse", sub.errors))
         /\ IF sub.errors > 0
            THEN /\ outcome' = "parse_error"
                 /\ exit_code' = EXIT_FAILURE
                 /\ pc' = "exited"
            ELSE /\ pc' = "rs_compile"
                 /\ UNCHANGED <<outcome, exit_code>>
    /\ UNCHANGED <<argv, banners, script_arg, symbol_table, constants, globals,
                   code, machine, err, obj, printed, pre, last_written>>
    /\ UNCHANGED <<fileVars, lexVars>>

\* run_script: compiler_new(); compile_program; err -> return EXIT_FAILURE
RsCompile ==
    /\ pc = "rs_compile"
    /\ LET c == compile_program(symbol_table_new, <<>>, program) IN
         /\ err' = c.err
         /\ calls' = Append(calls, Call("compile", c.err))
         /\ IF Failed(c.err)
            THEN /\ outcome' = "compile_error"
                 /\ exit_code' = EXIT_FAILURE
                 /\ pc' = "exited"
                 /\ UNCHANGED code
            ELSE /\ code' = get_bytecode(c)
                 /\ pc' = "rs_vm_run"
                 /\ UNCHANGED <<outcome, exit_code>>
    /\ UNCHANGED <<argv, banners, script_arg, symbol_table, constants, globals,
                   program, machine, obj, printed, pre, last_written>>
    /\ UNCHANGED <<fileVars, lexVars>>

\* run_script: machine = vm_new(code); err = vm_run(machine);
\* err -> return EXIT_FAILURE
RsVmRun ==
    /\ pc = "rs_vm_run"
    /\ LET r == vm_run(vm_new(code)) IN
         /\ machine' = r.machine
         /\ err' = r.err
         /\ calls' = Append(calls, Call("run", r.err))
         /\ IF Failed(r.err)
            THEN /\ outcome' = "runtime_error"
                 /\ exit_code' = EXIT_FAILURE
                 /\ pc' = "exited"
            ELSE /\ outcome' = "ok"
                 /\ pc' = "rs_free"
                 /\ UNCHANGED exit_code
    /\ UNCHANGED <<argv, banners, script_arg, symbol_table, constants, globals,
                   program, code, obj, printed, pre, last_written>>
    /\ UNCHANGED <<fileVars, lexVars>>

\* run_script: free everything; return EXIT_SUCCESS
RsFree ==
    /\ pc = "rs_free"
    /\ exit_code' = EXIT_SUCCESS
    /\ pc' = "exited"
    /\ UNCHANGED <<argv, banners, script_arg, symbol_table, constants, globals,
                   program, code, machine, err, obj, outcome, calls, printed,
                   pre, last_written>>
    /\ UNCHANGED <<fileVars, lexVars>>

----------------------------------------------------------------------------
\* read_file()

BUFSIZ     == 2        \* chunk size of fread (scaled down)
MaxFileLen == 5        \* longest file of the model

NUL       == "NUL"
FileBytes == {"a", "b"}
\* what bytes of freshly realloc'ed memory can hold
Garbage   == FileBytes \cup {NUL}
NoFile    == <<"<cannot open>">>
Files     == SeqsUpTo(FileBytes, MaxFileLen)

Min(a, b) == IF a < b THEN a ELSE b

FileIdle ==
    /\ rf_pc = "idle"
    /\ file = <<>>
    /\ fpos = 0
    /\ input = <<>>
    /\ size = 0
    /\ read = 0

InitFile ==
    /\ rf_pc = "start"
    /\ file \in Files \cup {NoFile}
    /\ fpos = 0
    /\ input = <<>>
    /\ size = 0
    /\ read = 0

\* input = calloc(BUFSIZ, 1); size = 0; f = fopen(filename, "r"); !f -> exit(1)
ReadFileOpen ==
    /\ rf_pc = "start"
    /\ input' = [i \in 1..BUFSIZ |-> NUL]
    /\ size' = 0
    /\ read' = 0
    /\ rf_pc' = IF file = NoFile THEN "exit" ELSE "fread"
    /\ UNCHANGED <<file, fpos>>
    /\ UNCHANGED <<mainVars, lexVars>>

\* one evaluation of the loop condition and, when read > 0, of the loop body:
\* read = fread(input, 1, BUFSIZ, f); size += read;
\* if (read >= BUFSIZ) input = realloc(input, size + BUFSIZ)
ReadFileFread ==
    /\ rf_pc = "fread"
    /\ LET n      == Min(BUFSIZ, Len(file) - fpos)
           filled == [i \in 1..Len(input) |->
                        IF i <= n THEN file[fpos + i] ELSE input[i]]
       IN /\ read' = n
          /\ fpos' = fpos + n
          /\ IF n > 0
             THEN /\ size' = size + n
                  /\ rf_pc' = "fread"
                  /\ IF n >= BUFSIZ
                     THEN \E g \in [1..(size + n + BUFSIZ - Len(input)) -> Garbage] :
                            input' = filled \o g
                     ELSE input' = filled
             ELSE /\ rf_pc' = "finish"
                  /\ input' = filled
                  /\ UNCHANGED size
    /\ UNCHANGED file
    /\ UNCHANGED <<mainVars, lexVars>>

\* input[size] = '\0'; fclose(f); return input
ReadFileFinish ==
    /\ rf_pc = "finish"
    /\ input' = [input EXCEPT ![size + 1] = NUL]
    /\ rf_pc' = "done"
    /\ UNCHANGED <<file, fpos, size, read>>
    /\ UNCHANGED <<mainVars, lexVars>>

----------------------------------------------------------------------------
\* Lexer: gettoken().  input[i] of the C code is mem[i + 1].

MAX_IDENT_LENGTH == 3   \* size of token.literal (scaled down)
MaxLen  == 3            \* longest input text
MaxTail == 1            \* bytes of the buffer after the terminating NUL

VT == "VT"
LowerCase == {"a","b","c","d","e","f","g","h","i","j","k","l","m",
              "n","o","p","q","r","s","t","u","v","w","x","y","z"}
UpperCase == {"A","B","C","D","E","F","G","H","I","J","K","L","M",
              "N","O","P","Q","R","S","T","U","V","W","X","Y","Z"}
Digits    == {"0","1","2","3","4","5","6","7","8","9"}

isspace(ch)   == ch \in {" ", "\t", "\n", VT, "\f", "\r"}
isdigit(ch)   == ch \in Digits
is_letter(ch) == ch \in LowerCase \/ ch \in UpperCase \/ ch = "_"

Max(a, b) == IF a > b THEN a ELSE b

\* get_ident: keyword lookup on the literal
get_ident(lit) ==
    CASE lit = <<"l","e","t">>                     -> "TOKEN_LET"
      [] lit = <<"f","n">>                         -> "TOKEN_FUNCTION"
      [] lit = <<"t","r","u","e">>                 -> "TOKEN_TRUE"
      [] lit = <<"f","a","l","s","e">>             -> "TOKEN_FALSE"
      [] lit = <<"i","f">>                         -> "TOKEN_IF"
      [] lit = <<"e","l","s","e">>                 -> "TOKEN_ELSE"
      [] lit = <<"r","e","t","u","r","n">>         -> "TOKEN_RETURN"
      [] lit = <<"w","h","i","l","e">>             -> "TOKEN_WHILE"
      [] lit = <<"f","o","r">>                     -> "TOKEN_FOR"
      [] lit = <<"i","n">>                         -> "TOKEN_IN"
      [] lit = <<"b","r","e","a","k">>             -> "TOKEN_BREAK"
      [] lit = <<"c","o","n","t","i","n","u","e">> -> "TOKEN_CONTINUE"
      [] OTHER                                     -> "TOKEN_IDENT"

new_lexer == [pos |-> 0, cur_lineno |-> 1, cur_linepos |-> 0]

\* working copy of the lexer during one call; hi is the highest index read
Work(l)   == [pos |-> l.pos, cur_lineno |-> l.cur_lineno,
              cur_linepos |-> l.cur_linepos, hi |-> -1]
Rd(w, i)  == [w EXCEPT !.hi = Max(@, i)]
Adv(w)    == [w EXCEPT !.pos = @ + 1, !.cur_linepos = @ + 1]

\* ch = l->input[l->pos++]; l->cur_linepos++
NextCh(m, w) == [w |-> Adv(Rd(w, w.pos)), ch |-> m[w.pos + 1]]
\* ch_next = l->input[l->pos]
Peek(m, w)   == [w |-> Rd(w, w.pos), ch |-> m[w.pos + 1]]

\* while (isspace(ch)) { newline bookkeeping; ch = next }
RECURSIVE SkipSpace(_, _, _)
SkipSpace(m, w, ch) ==
    IF isspace(ch)
    THEN LET w1 == IF ch = "\n"
                   THEN [w EXCEPT !.cur_lineno = @ + 1, !.cur_linepos = 0]
                   ELSE w
             n  == NextCh(m, w1)
         IN SkipSpace(m, n.w, n.ch)
    ELSE [w |-> w, ch |-> ch]

\* while (input[pos] != '\n' && input[pos] != '\0') { pos++; cur_linepos++; }
RECURSIVE SkipComment(_, _)
SkipComment(m, w) ==
    IF Peek(m, w).ch # "\n" /\ Peek(m, w).ch # NUL
    THEN SkipComment(m, Adv(Rd(w, w.pos)))
    ELSE Rd(w, w.pos)

\* string body: read until NUL or a quote not preceded by a backslash
RECURSIVE ScanString(_, _)
ScanString(m, w) ==
    LET n == NextCh(m, w) IN
    IF n.ch = NUL \/ (n.ch = "\"" /\ m[(n.w.pos - 2) + 1] # "\\")
    THEN n.w
    ELSE ScanString(m, n.w)

\* while (accepted(ch) && i < MAX_IDENT_LENGTH - 1) { literal[i++] = ch; ch = next }
RECURSIVE ScanRun(_, _, _, _, _)
ScanRun(m, w, ch, lit, digitsOnly) ==
    IF /\ (IF digitsOnly THEN isdigit(ch) ELSE is_letter(ch) \/ isdigit(ch))
       /\ Len(lit) < MAX_IDENT_LENGTH - 1
    THEN LET n == NextCh(m, w) IN ScanRun(m, n.w, n.ch, Append(lit, ch), digitsOnly)
    ELSE [w |-> w, lit |-> lit]

\* variant of Unget that leaves the last character consumed
Unget_Missing(w) == w

\* return last character to input
Unget(w) == [w EXCEPT !.pos = @ - 1, !.cur_linepos = @ - 1]

SingleCharType(ch) ==
    CASE ch = ";" -> "TOKEN_SEMICOLON"
      [] ch = ":" -> "TOKEN_COLON"
      [] ch = "(" -> "TOKEN_LPAREN"
      [] ch = ")" -> "TOKEN_RPAREN"
      [] ch = "," -> "TOKEN_COMMA"
      [] ch = "+" -> "TOKEN_PLUS"
      [] ch = "-" -> "TOKEN_MINUS"
      [] ch = "*" -> "TOKEN_ASTERISK"
      [] ch = "{" -> "TOKEN_LBRACE"
      [] ch = "}" -> "TOKEN_RBRACE"
      [] ch = "[" -> "TOKEN_LBRACKET"
      [] ch = "]" -> "TOKEN_RBRACKET"
      [] ch = "%" -> "TOKEN_PERCENT"

SingleChars == {";", ":", "(", ")", ",", "+", "-", "*", "{", "}", "[", "]", "%"}

\* cases '=', '!', '<', '>': a following '=' makes the two-character token
PairType(ch) ==
    CASE ch = "=" -> [two |-> "TOKEN_EQ",     one |-> "TOKEN_ASSIGN"]
      [] ch = "!" -> [two |-> "TOKEN_NOT_EQ", one |-> "TOKEN_BANG"]
      [] ch = "<" -> [two |-> "TOKEN_LTE",    one |-> "TOKEN_LT"]
      [] ch = ">" -> [two |-> "TOKEN_GTE",    one |-> "TOKEN_GT"]

PairChars == {"=", "!", "<", ">"}

\* gettoken(l, t): the lexer after the call, the token, the highest index read
RECURSIVE gettoken(_, _, _)
gettoken(m, w0, t0) ==
    LET first == NextCh(m, w0)
        sk    == SkipSpace(m, first.w, first.ch)
        w     == sk.w
        ch    == sk.ch
        \* memset(t->literal, 0, 64); t->line, t->pos; at (not a field of the
        \* C struct) is the index of ch, the token's first character
        t     == [t0 EXCEPT !.literal = <<>>, !.line = w.cur_lineno,
                            !.pos = w.cur_linepos, !.at = w.pos - 1]
    IN
    CASE ch \in PairChars ->
           LET p == Peek(m, w) IN
           IF p.ch = "="
           THEN [w |-> Adv(p.w),
                 t |-> [t EXCEPT !.type = PairType(ch).two, !.literal = <<ch, "=">>]]
           ELSE [w |-> p.w,
                 t |-> [t EXCEPT !.type = PairType(ch).one, !.literal = <<ch>>]]
      [] ch \in SingleChars ->
           [w |-> w, t |-> [t EXCEPT !.type = SingleCharType(ch), !.literal = <<ch>>]]
      [] ch = "/" ->
           LET p == Peek(m, w) IN
           IF p.ch = "/"
           THEN gettoken(m, SkipComment(m, p.w), t)
           ELSE [w |-> p.w, t |-> [t EXCEPT !.type = "TOKEN_SLASH", !.literal = <<ch>>]]
      [] ch = "|" ->
           LET p == Peek(m, w) IN
           IF p.ch = "|"
           THEN [w |-> Adv(p.w),
                 t |-> [t EXCEPT !.type = "TOKEN_OR", !.literal = <<"|", "|">>]]
           ELSE [w |-> p.w, t |-> t]
      [] ch = "&" ->
           LET p == Peek(m, w) IN
           IF p.ch = "&"
           THEN [w |-> Adv(p.w),
                 t |-> [t EXCEPT !.type = "TOKEN_AND", !.literal = <<"&", "&">>]]
           ELSE [w |-> p.w, t |-> t]
      [] ch = "\"" ->
           LET e == ScanString(m, w) IN
           [w |-> e, t |-> [t EXCEPT !.type = "TOKEN_STRING", !.start = w.pos,
                                     !.end = e.pos - 1]]
      [] ch = NUL ->
           [w |-> w, t |-> [t EXCEPT !.type = "TOKEN_EOF"]]
      [] OTHER ->
           IF is_letter(ch)
           THEN LET r == ScanRun(m, w, ch, <<>>, FALSE) IN
                [w |-> Unget(r.w),
                 t |-> [t EXCEPT !.type = get_ident(r.lit), !.literal = r.lit]]
           ELSE IF isdigit(ch)
           THEN LET r == ScanRun(m, w, ch, <<>>, TRUE) IN
                [w |-> Unget(r.w),
                 t |-> [t EXCEPT !.type = "TOKEN_INT", !.literal = r.lit]]
           ELSE [w |-> w, t |-> [t EXCEPT !.type = "TOKEN_ILLEGAL", !.literal = <<ch>>]]

\* the texts lexed and the stale bytes that can follow their NUL in the buffer
LexChars  == {"a", "1", "\"", "/", "\n", "|", "&", "\\", "="}
\* texts of identifiers, keywords and numbers
IdentChars == {"i", "n", "a", "_", "1", " ", "="}
TailBytes == {NUL, "a", "\""}
\* prior content of the caller's token struct
PriorTypes == {"TOKEN_ILLEGAL", "TOKEN_EOF"}

Token(ty) == [type |-> ty, literal |-> <<>>, line |-> 0, pos |-> 0,
              start |-> 0, end |-> 0, at |-> 0]

\* index of the terminating NUL of the text in m
NulIndex(m) == CHOOSE i \in 0..(Len(m) - 1) :
                  /\ m[i + 1] = NUL
                  /\ \A j \in 0..(i - 1) : m[j + 1] # NUL

LexIdle ==
    /\ mem = <<NUL>>
    /\ lexer = new_lexer
    /\ tok = Token("TOKEN_ILLEGAL")
    /\ lex_hi = -1
    /\ lex_calls = 0
    /\ lex_eof_at = 0

\* the buffer: the text, its NUL, stale bytes, and the buffer's last byte
InitLexOver(chars) ==
    /\ \E text \in SeqsUpTo(chars, MaxLen), tail \in SeqsUpTo(TailBytes, MaxTail) :
         mem = text \o <<NUL>> \o tail \o <<NUL>>
    /\ lexer = new_lexer
    /\ tok \in {Token(ty) : ty \in PriorTypes}
    /\ lex_hi = -1
    /\ lex_calls = 0
    /\ lex_eof_at = 0

InitLex == InitLexOver(LexChars)

\* one call gettoken(&lexer, &tok), made while the position is in the buffer
LexGetToken ==
    /\ lexer.pos < Len(mem)
    /\ LET r == gettoken(mem, Work(lexer), tok) IN
         /\ lexer' = [pos |-> r.w.pos, cur_lineno |-> r.w.cur_lineno,
                      cur_linepos |-> r.w.cur_linepos]
         /\ tok' = r.t
         /\ lex_hi' = Max(lex_hi, r.w.hi)
         /\ lex_calls' = lex_calls + 1
         /\ lex_eof_at' = IF lex_eof_at = 0 /\ r.t.type = "TOKEN_EOF"
                          THEN lex_calls + 1 ELSE lex_eof_at
    /\ UNCHANGED mem
    /\ UNCHANGED <<mainVars, fileVars>>

----------------------------------------------------------------------------
\* Specifications

Init == InitMain /\ FileIdle /\ LexIdle

Next ==
    \/ Main
    \/ ReplPrompt
    \/ ReplFgets
    \/ ReplParse
    \/ ReplCompile
    \/ ReplVmNew
    \/ ReplVmRun
    \/ ReplPrint
    \/ ReplCopyGlobals
    \/ RsReadFile
    \/ RsParse
    \/ RsCompile
    \/ RsVmRun
    \/ RsFree

Spec == Init /\ [][Next]_vars

\* read_file on every file of the model
InitReadFile == MainIdle /\ InitFile /\ LexIdle

NextFile ==
    \/ ReadFileOpen
    \/ ReadFileFread
    \/ ReadFileFinish

SpecFile == InitReadFile /\ [][NextFile]_vars

\* gettoken on every buffer of the model
InitLexer == MainIdle /\ FileIdle /\ InitLex

NextLex == LexGetToken

SpecLex == InitLexer /\ [][NextLex]_vars

\* gettoken on texts made of identifiers, keywords and numbers
InitIdent == MainIdle /\ FileIdle /\ InitLexOver(IdentChars)

SpecIdent == InitIdent /\ [][NextLex]_vars

----------------------------------------------------------------------------
\* Properties of the REPL, of script mode and of main (checked under Spec)

Errors == {"parse_error", "compile_error", "runtime_error"}

Called(stage) == \E i \in 1..Len(calls) : calls[i].stage = stage

AllStagesOk == <<Call("parse", 0), Call("compile", 0), Call("run", 0)>>

\* C1: a submission of the REPL that fails (parse, compile or runtime error)
\* leaves symbol table, constant pool and globals buffer exactly as they were
\* when the submission was read.
C1_FailedSubmissionKeepsState ==
    (pc = "repl_prompt" /\ outcome \in Errors) => PersistentState = pre

\* C2 as stated: after every vm_run call, whatever it returns, the REPL's
\* buffer holds the VM's globals when the next prompt is reached.
C2_CopiedOutAfterEveryRun ==
    (pc = "repl_prompt" /\ Called("run")) => globals = machine.globals

\* C2 amended: the globals are copied out after each vm_run that returned
\* 0, the buffer is what the next VM instance starts from, and the value a
\* successful run stored in a slot is in that slot for every later submission.
C2_GlobalsPersistAfterSuccess ==
    /\ (pc = "repl_prompt" /\ outcome = "ok") => globals = machine.globals
    /\ pc = "repl_vm_run" => machine.globals = globals
    /\ pc \in {"repl_prompt", "repl_fgets", "repl_parse", "repl_compile",
               "repl_vm_new", "repl_vm_run"} =>
         \A i \in Slots :
            last_written[i] # UNINIT =>
               /\ globals[i] = last_written[i]
               /\ pc = "repl_vm_run" => machine.globals[i] = last_written[i]

\* a later submission that reads x runs on a VM holding the value an earlier
\* successful submission stored for x
C2_Witness ==
    /\ pc = "repl_vm_run"
    /\ program.statements = <<Ident("x")>>
    /\ last_written[resolve(symbol_table, "x")] = Object("INTEGER", 1)
    /\ machine.globals[resolve(symbol_table, "x")] = Object("INTEGER", 1)

\* what C3 asks of one step taken inside repl()
ReplStepStaysInLoop ==
    pc \in ReplPcs =>
         /\ pc' \in ReplPcs
         /\ exit_code' = NoExit
         /\ (pc \in {"repl_parse", "repl_compile", "repl_vm_run"} /\ outcome' \in Errors)
               => pc' = "repl_prompt"
         /\ pc = "repl_copy" => pc' = "repl_prompt"
         /\ pc = "repl_prompt" => pc' = "repl_fgets"

\* C3: the REPL loop continues after every outcome: a step that ends a
\* submission with a parse, compile or runtime error, and the step that ends
\* a successful one, lead to the prompt, the prompt leads to reading a line,
\* and no step of the REPL returns from repl().
C3_ReplLoopContinues == [][ReplStepStaysInLoop]_vars

\* the REPL reads the next line after a runtime error
C3_Witness ==
    /\ pc = "repl_fgets"
    /\ outcome = "runtime_error"

\* C4: run_script's exit code is 0 iff the file was opened, the parser
\* reported no errors, compile_program returned 0 and vm_run returned 0;
\* it is non-zero otherwise.
C4_ScriptExitCode ==
    (script_arg # NoArg /\ pc = "exited") =>
        /\ exit_code # NoExit
        /\ exit_code = 0 <=> calls = <<Call("open", 0)>> \o AllStagesOk

\* a script whose execution failed exits non-zero
C4_Witness ==
    /\ script_arg # NoArg
    /\ pc = "exited"
    /\ Called("run")
    /\ err # 0
    /\ exit_code = EXIT_FAILURE

\* C5: stages run in the order parse, compile, execute; compile_program is
\* called only directly after a parse without errors and vm_run only directly
\* after a compile_program that returned 0.
C5_StagesInOrder ==
    \A i \in 1..Len(calls) :
        /\ calls[i].stage = "parse" =>
              (i = 1 \/ (i = 2 /\ calls[1] = Call("open", 0)))
        /\ calls[i].stage = "compile" => (i > 1 /\ calls[i - 1] = Call("parse", 0))
        /\ calls[i].stage = "run" => (i > 1 /\ calls[i - 1] = Call("compile", 0))

\* a submission whose compilation failed is over without vm_run
C5_Witness ==
    /\ pc = "repl_prompt"
    /\ calls = <<Call("parse", 0), Call("compile", COMPILE_ERR_UNKNOWN_IDENT)>>

\* C7: main with no arguments enters the REPL; with first argument exactly
\* "--version" it prints the banner and exits 0 without REPL or script; any
\* other first argument is handed to run_script.
C7_Dispatch ==
    pc # "main" =>
        IF Len(argv) = 0
        THEN pc \in ReplPcs /\ script_arg = NoArg /\ exit_code = NoExit
        ELSE IF argv[1] = "--version"
        THEN /\ pc = "exited" /\ exit_code = 0 /\ banners = 1
             /\ script_arg = NoArg /\ calls = <<>>
        ELSE /\ script_arg = argv[1] /\ banners = 0
             /\ pc \in ScriptPcs \cup {"exited"}

\* an argument that only starts with "--version" is run as a script
C7_Witness ==
    /\ argv = <<"--version2">>
    /\ script_arg = "--version2"
    /\ pc = "rs_read_file"

\* C8: when a submission of the REPL is over, a result was printed for it
\* iff it parsed, compiled and ran without error and the last popped value
\* is neither a CompiledFunction nor a Builtin.
C8_PrintedExactlyWhen ==
    (pc = "repl_prompt" /\ outcome # "none") =>
        (printed <=> /\ calls = AllStagesOk
                     /\ obj.type \notin {"COMPILED_FUNCTION", "BUILTIN"})

\* a successful submission whose last popped value is a builtin prints nothing
C8_Witness ==
    /\ pc = "repl_prompt"
    /\ outcome = "ok"
    /\ obj.type = "BUILTIN"
    /\ ~printed

\* C9: between submissions every global binding of the shared symbol table
\* has an initialised slot in the REPL's globals buffer.
C9_BindingsInitialised ==
    pc = "repl_prompt" =>
        \A n \in Names :
            resolve(symbol_table, n) # NotFound =>
                globals[resolve(symbol_table, n)] # UNINIT

----------------------------------------------------------------------------
\* Property of read_file (checked under SpecFile)

\* C6: the buffer read_file returns holds exactly the file's bytes in file
\* order, followed by a NUL at the index equal to the file's length.
C6_BufferHoldsFile ==
    rf_pc = "done" =>
        /\ Len(input) > Len(file)
        /\ SubSeq(input, 1, Len(file)) = file
        /\ input[Len(file) + 1] = NUL

----------------------------------------------------------------------------
\* Properties of gettoken (checked under SpecLex)

\* C10: no call up to and including the first one that returns TOKEN_EOF
\* reads a byte past the terminating NUL, and the lexer position does not
\* pass the NUL without TOKEN_EOF having been returned.
C10_LexReachesEofSafely ==
    /\ (lex_eof_at = 0 \/ lex_eof_at = lex_calls) => lex_hi <= NulIndex(mem)
    /\ lexer.pos > NulIndex(mem) => lex_eof_at # 0

\* number of newline characters among input[0 .. i-1]
NewlinesBefore(m, i) == Cardinality({j \in 0..(i - 1) : m[j + 1] = "\n"})

\* 1-based column of input[i] within its line
ColumnOf(m, i) ==
    LET nls == {j \in 0..(i - 1) : m[j + 1] = "\n"}
    IN IF nls = {} THEN i + 1
       ELSE i - (CHOOSE j \in nls : \A k \in nls : k <= j)

\* C11: every token that starts in the text (its NUL included) carries the
\* source position of its first character: line = 1 + newlines before it,
\* pos = its 1-based column.
C11_TokenPositions ==
    (lex_calls > 0 /\ tok.at <= NulIndex(mem)) =>
        /\ tok.line = 1 + NewlinesBefore(mem, tok.at)
        /\ tok.pos = ColumnOf(mem, tok.at)

TokenTypes == {"TOKEN_ILLEGAL", "TOKEN_EOF", "TOKEN_IDENT", "TOKEN_INT",
               "TOKEN_STRING", "TOKEN_OR", "TOKEN_AND"}

\* the token gettoken returns when called at index i with prior type ty
TypeAt(m, i, ty) ==
    gettoken(m, [pos |-> i, cur_lineno |-> 1, cur_linepos |-> 0, hi |-> -1],
             Token(ty)).t.type

\* C12: the type of the returned token depends only on the text at the
\* token's place, not on what the token struct held before the call; a '&'
\* not followed by '&' and a '|' not followed by '|' give TOKEN_ILLEGAL.
C12_TypeFromInputOnly ==
    (lex_calls > 0 /\ tok.at <= NulIndex(mem)) =>
        /\ \A ty \in TokenTypes : TypeAt(mem, tok.at, ty) = tok.type
        /\ (mem[tok.at + 1] \in {"|", "&"} /\ mem[tok.at + 2] # mem[tok.at + 1])
              => tok.type = "TOKEN_ILLEGAL"

\* C13: once a call has returned TOKEN_EOF, every further call returns
\* TOKEN_EOF again and no call reads a byte past the terminating NUL.
C13_EofAbsorbing ==
    (lex_eof_at # 0 /\ lex_calls > lex_eof_at) =>
        /\ tok.type = "TOKEN_EOF"
        /\ lex_hi <= NulIndex(mem)

\* the characters a run of the given kind accepts
InRun(ch, digitsOnly) ==
    IF digitsOnly THEN ch \in Digits ELSE ch \in LowerCase \cup UpperCase \cup {"_"} \cup Digits

\* length of the longest run starting at index i, at most MAX_IDENT_LENGTH - 1
RunLen(m, i, digitsOnly) ==
    CHOOSE k \in 0..(MAX_IDENT_LENGTH - 1) :
        /\ \A j \in 0..(k - 1) : i + j + 1 <= Len(m) /\ InRun(m[i + j + 1], digitsOnly)
        /\ \/ k = MAX_IDENT_LENGTH - 1
           \/ i + k + 1 > Len(m)
           \/ ~InRun(m[i + k + 1], digitsOnly)

Keywords ==
    { <<"let", <<"l","e","t">>, "TOKEN_LET">>,
      <<"fn", <<"f","n">>, "TOKEN_FUNCTION">>,
      <<"true", <<"t","r","u","e">>, "TOKEN_TRUE">>,
      <<"false", <<"f","a","l","s","e">>, "TOKEN_FALSE">>,
      <<"if", <<"i","f">>, "TOKEN_IF">>,
      <<"else", <<"e","l","s","e">>, "TOKEN_ELSE">>,
      <<"return", <<"r","e","t","u","r","n">>, "TOKEN_RETURN">>,
      <<"while", <<"w","h","i","l","e">>, "TOKEN_WHILE">>,
      <<"for", <<"f","o","r">>, "TOKEN_FOR">>,
      <<"in", <<"i","n">>, "TOKEN_IN">>,
      <<"break", <<"b","r","e","a","k">>, "TOKEN_BREAK">>,
      <<"continue", <<"c","o","n","t","i","n","u","e">>, "TOKEN_CONTINUE">> }

WordType(lit) ==
    IF \E kw \in Keywords : kw[2] = lit
    THEN (CHOOSE kw \in Keywords : kw[2] = lit)[3]
    ELSE "TOKEN_IDENT"

\* C14: a token that starts with a letter or '_' (a digit) holds in its
\* literal exactly the longest run of letters, '_' and digits (of digits)
\* from its first character, at most MAX_IDENT_LENGTH - 1 of them; its type
\* is the keyword's type when the literal is a keyword, TOKEN_IDENT otherwise
\* and TOKEN_INT for digits; and the lexer position after the call is the
\* index of the first character that was not stored.
C14_RunScannedExactly ==
    (lex_calls > 0 /\ InRun(mem[tok.at + 1], FALSE)) =>
        LET digitsOnly == mem[tok.at + 1] \in Digits
            k          == RunLen(mem, tok.at, digitsOnly)
            lit        == SubSeq(mem, tok.at + 1, tok.at + k)
        IN /\ k >= 1
           /\ tok.literal = lit
           /\ tok.type = IF digitsOnly THEN "TOKEN_INT" ELSE WordType(lit)
           /\ lexer.pos = tok.at + k

\* an identifier cut at the cap: the character after it would have continued it
C14_Witness ==
    /\ lex_calls > 0
    /\ tok.type \in {"TOKEN_IDENT", "TOKEN_IN"}
    /\ Len(tok.literal) = MAX_IDENT_LENGTH - 1
    /\ InRun(mem[tok.at + MAX_IDENT_LENGTH], FALSE)
    /\ lexer.pos = tok.at + MAX_IDENT_LENGTH - 1

====
